---- MODULE Spec2Model ----
(***************************************************************************)
(* A model of compare_mt/bucketers.py: the bucket cutoff model, the word   *)
(* and sentence bucketing policies, the word-level match statistics, the   *)
(* source-bucketed alignment matches, the bucketed likelihoods and the     *)
(* sentence-bucketed corpus builder.                                        *)
(*                                                                         *)
(* Python lists are sequences (1-based here, 0-based in the source): a     *)
(* bucket index b of the source is the value b, and names the element      *)
(* b+1 of bucket_strs.  Words and labels are sequences of characters, the *)
(* empty string is <<>> and Python's None is None_.  A float is a fraction *)
(* <<numerator, denominator>> in lowest terms; Inf and NaN are what        *)
(* numpy's division by zero produces.  An exception ends an operation with *)
(* its pc at the exception's name.                                         *)
(***************************************************************************)
EXTENDS Integers, Sequences, FiniteSets, TLC

VARIABLES
  \* Bucketer (set_bucket_cutoffs / cutoff_into_bucket)
  c_pc, bucket_cutoffs, bucket_strs, c_num_type, c_value, c_bucket,
  \* WordBucketer._calc_sent_buckets_and_matches, one sentence
  m_pc, bucketer, m_labelled, ref_sent, ref_label, ref_pos, ref_buckets,
  oai, out_sent, out_label, out_word_cnts, matches, out_buckets,
  \* WordBucketer.calc_statistics_and_examples
  s_pc, s_bucketer, s_labelled, num_outs, rsi, s_ref_sent, s_ref_label, s_ref_pos,
  s_ref_buckets, s_oai, s_out_len, s_out_word_cnts, my_ref_total, my_out_totals,
  my_out_matches, ref_total, out_totals, out_matches, statistics, same,
  \* WordBucketer.calc_source_bucketed_matches
  x_pc, x_bucketer, x_labelled, x_nsents, src_sent, src_lab, x_out_sent, ref_cnt,
  x_pairs, x_matches, x_bi, x_yielded,
  \* SentenceBucketer.create_bucketed_corpus
  b_pc, b_bucketer, b_ref_given, b_labelled, b_n, b_out, b_ref, b_labels,
  bucketed_corpus,
  \* WordBucketer.calc_bucketed_likelihoods
  l_pc, l_bucketer, l_ncorpus, l_nlik, l_corpus, l_likelihoods, bucketed_likelihoods,
  l_bi, l_yielded,
  \* LabelWordBucketer / LabelSentenceBucketer
  lb_pc, lb_bucketer, lb_label, lb_bucket,
  \* FreqWordBucketer.__init__
  f_pc, f_args, f_bucketer, f_word, f_bucket,
  \* WordBucketer.calc_statistics_and_examples, the examples
  e_pc, e_bucketer, e_labelled, e_num_outs, num_examples, e_ref_totals, e_out_matches,
  example_scores, e_cell, fexamples

varsCutoff == <<c_pc, bucket_cutoffs, bucket_strs, c_num_type, c_value, c_bucket>>

varsMatch == <<m_pc, bucketer, m_labelled, ref_sent, ref_label, ref_pos, ref_buckets,
               oai, out_sent, out_label, out_word_cnts, matches, out_buckets>>

varsStats == <<s_pc, s_bucketer, s_labelled, num_outs, rsi, s_ref_sent, s_ref_label,
               s_ref_pos, s_ref_buckets, s_oai, s_out_len, s_out_word_cnts, my_ref_total,
               my_out_totals, my_out_matches, ref_total, out_totals, out_matches,
               statistics, same>>

varsSrc == <<x_pc, x_bucketer, x_labelled, x_nsents, src_sent, src_lab, x_out_sent,
             ref_cnt, x_pairs, x_matches, x_bi, x_yielded>>

varsSent == <<b_pc, b_bucketer, b_ref_given, b_labelled, b_n, b_out, b_ref, b_labels,
              bucketed_corpus>>

varsLik == <<l_pc, l_bucketer, l_ncorpus, l_nlik, l_corpus, l_likelihoods,
             bucketed_likelihoods, l_bi, l_yielded>>

varsLabel == <<lb_pc, lb_bucketer, lb_label, lb_bucket>>

varsFreq == <<f_pc, f_args, f_bucketer, f_word, f_bucket>>

varsExamples == <<e_pc, e_bucketer, e_labelled, e_num_outs, num_examples, e_ref_totals,
                  e_out_matches, example_scores, e_cell, fexamples>>

vars == <<varsCutoff, varsMatch, varsStats, varsSrc, varsSent, varsLik, varsLabel, varsFreq,
          varsExamples>>

othersCutoff == <<varsMatch, varsStats, varsSrc, varsSent, varsLik, varsLabel, varsFreq,
    varsExamples>>
othersMatch == <<varsCutoff, varsStats, varsSrc, varsSent, varsLik, varsLabel, varsFreq,
    varsExamples>>
othersStats == <<varsCutoff, varsMatch, varsSrc, varsSent, varsLik, varsLabel, varsFreq,
    varsExamples>>
othersSrc == <<varsCutoff, varsMatch, varsStats, varsSent, varsLik, varsLabel, varsFreq,
    varsExamples>>
othersSent == <<varsCutoff, varsMatch, varsStats, varsSrc, varsLik, varsLabel, varsFreq,
    varsExamples>>
othersLik == <<varsCutoff, varsMatch, varsStats, varsSrc, varsSent, varsLabel, varsFreq,
    varsExamples>>
othersLabel == <<varsCutoff, varsMatch, varsStats, varsSrc, varsSent, varsLik, varsFreq,
    varsExamples>>
othersFreq == <<varsCutoff, varsMatch, varsStats, varsSrc, varsSent, varsLik, varsLabel,
    varsExamples>>
othersExamples == <<varsCutoff, varsMatch, varsStats, varsSrc, varsSent, varsLik, varsLabel,
    varsFreq>>

\* Python's None
None_ == <<"None">>

\* ------------------------------------------------------------------------
\* Bounds of the model
\* ------------------------------------------------------------------------
MaxCutoffs == 3
CutSpan == 2
MaxLen == 3
MaxOuts == 2
MaxSents == 2
MaxCorpus == 3
MaxLikSents == 2
MaxLikLen == 2
MaxLabelSet == 2
MaxFileLines == 2
MaxExSents == 2

\* ------------------------------------------------------------------------
\* Generic helpers
\* ------------------------------------------------------------------------
Range(s) == {s[i] : i \in DOMAIN s}

SeqsUpTo(S, n) == UNION {[1..k -> S] : k \in 0..n}

Min(S) == CHOOSE x \in S : \A y \in S : x <= y

\* ------------------------------------------------------------------------
\* Bucketer: the cutoff model
\* ------------------------------------------------------------------------
Digit(d) ==
  CASE d = 0 -> "0" [] d = 1 -> "1" [] d = 2 -> "2" [] d = 3 -> "3"
    [] d = 4 -> "4" [] d = 5 -> "5" [] d = 6 -> "6" [] d = 7 -> "7"
    [] d = 8 -> "8" [] d = 9 -> "9"

RECURSIVE NatStr(_)
NatStr(n) == IF n < 10 THEN <<Digit(n)>> ELSE NatStr(n \div 10) \o <<Digit(n % 10)>>

\* f'{x}' for an int x: a string is the sequence of its characters
IntStr(x) == IF x < 0 THEN <<"-">> \o NatStr(0 - x) ELSE NatStr(x)

\* the string appended for cutoff i (1-based) in the loop of set_bucket_cutoffs
BucketStrNoUnit(cutoffs, num_type, i) ==
  IF i = 1 THEN <<"<">> \o IntStr(cutoffs[i])
  ELSE <<"[">> \o IntStr(cutoffs[i-1]) \o <<",">> \o IntStr(cutoffs[i]) \o <<")">>

BucketStr(cutoffs, num_type, i) ==
  IF i = 1 THEN <<"<">> \o IntStr(cutoffs[i])
  ELSE IF num_type = "int" /\ cutoffs[i] - 1 = cutoffs[i-1] THEN IntStr(cutoffs[i] - 1)
  ELSE <<"[">> \o IntStr(cutoffs[i-1]) \o <<",">> \o IntStr(cutoffs[i]) \o <<")">>

\* self.bucket_strs after set_bucket_cutoffs on a non-empty list
BucketStrs(cutoffs, num_type) ==
  [i \in 1..Len(cutoffs) |-> BucketStr(cutoffs, num_type, i)]
    \o << <<">", "=">> \o IntStr(cutoffs[Len(cutoffs)]) >>

RECURSIVE CutoffScanLe(_, _, _)
CutoffScanLe(cutoffs, value, i) ==
  IF i > Len(cutoffs) THEN Len(cutoffs)
  ELSE IF value <= cutoffs[i] THEN i - 1
  ELSE CutoffScanLe(cutoffs, value, i + 1)

RECURSIVE CutoffScan(_, _, _)
CutoffScan(cutoffs, value, i) ==
  IF i > Len(cutoffs) THEN Len(cutoffs)
  ELSE IF value < cutoffs[i] THEN i - 1
  ELSE CutoffScan(cutoffs, value, i + 1)

cutoff_into_bucket(cutoffs, value) == CutoffScan(cutoffs, value, 1)

\* the default cutoff lists of the bucketers
FreqDefaultCutoffs == <<1, 2, 3, 4, 5, 10, 100, 1000>>
LengthDefaultCutoffs == <<10, 20, 30, 40, 50, 60>>
LengthDiffDefaultCutoffs == <<-20, -10, -5, -4, -3, -2, -1, 0, 1, 2, 3, 4, 5, 6, 11, 21>>

StrictlyIncreasing(s) == \A i \in 1..(Len(s) - 1) : s[i] < s[i+1]

CutoffVals == (0 - CutSpan)..CutSpan

CutoffLists ==
  {s \in SeqsUpTo(CutoffVals, MaxCutoffs) : StrictlyIncreasing(s)}
    \cup {FreqDefaultCutoffs, LengthDefaultCutoffs, LengthDiffDefaultCutoffs}

Values ==
  ((0 - CutSpan) - 1)..(CutSpan + 1)
    \cup {4, 5, 6, 9, 10, 11, 20, 21, 22, 59, 60, 99, 100, 999, 1000, 1001, -21, -20, -10}

InitCutoff ==
  /\ c_pc = "new"
  /\ bucket_cutoffs = <<>>
  /\ bucket_strs = <<>>
  /\ c_num_type = None_
  /\ c_value = None_
  /\ c_bucket = None_

\* set_bucket_cutoffs: on an empty list the loop leaves x unbound and the
\* final append raises
SetBucketCutoffs ==
  \E cutoffs \in CutoffLists, num_type \in {"int", "float"} :
    /\ UNCHANGED othersCutoff
    /\ c_num_type' = num_type
    /\ bucket_cutoffs' = cutoffs
    /\ c_value' = None_
    /\ c_bucket' = None_
    /\ IF cutoffs = <<>>
       THEN /\ c_pc' = "error"
            /\ bucket_strs' = <<>>
       ELSE /\ c_pc' = "set"
            /\ bucket_strs' = BucketStrs(cutoffs, num_type)

CutoffIntoBucket ==
  /\ c_pc \in {"set", "bucketed"}
  /\ \E value \in Values :
       /\ c_value' = value
       /\ c_bucket' = cutoff_into_bucket(bucket_cutoffs, value)
  /\ c_pc' = "bucketed"
  /\ UNCHANGED <<bucket_cutoffs, bucket_strs, c_num_type>>
  /\ UNCHANGED othersCutoff

NextCutoff == SetBucketCutoffs \/ CutoffIntoBucket

\* ------------------------------------------------------------------------
\* Words, labels and dictionaries
\* ------------------------------------------------------------------------
\* A word or a label is the sequence of its characters; "" is <<>>.
LowerLetters == {"a", "b", "x", "y"}
UpperLetters == {"A", "B", "X", "Y"}

LowerChar(c) ==
  CASE c = "A" -> "a" [] c = "B" -> "b" [] c = "X" -> "x" [] c = "Y" -> "y" [] OTHER -> c

lower(word) == [i \in DOMAIN word |-> LowerChar(word[i])]

islower(word) == word # <<>> /\ \A i \in DOMAIN word : word[i] \in LowerLetters

isupper(word) == word # <<>> /\ \A i \in DOMAIN word : word[i] \in UpperLetters

istitle(word) ==
  /\ word # <<>>
  /\ word[1] \in UpperLetters
  /\ \A i \in 2..Len(word) : word[i] \in LowerLetters

\* dict.get(k, default) and d[k] = v
DictGet(d, k, default) == IF k \in DOMAIN d THEN d[k] ELSE default

DictPut(d, k, v) == [x \in (DOMAIN d) \cup {k} |-> IF x = k THEN v ELSE d[x]]

EmptyDict == <<>>

\* `if not label` / `if label`
Falsy(label) == label = None_ \/ label = <<>>

\* ------------------------------------------------------------------------
\* Word bucketers
\* ------------------------------------------------------------------------
NoBucketer ==
  [cls |-> "none", case_insensitive |-> FALSE, freq_counts |-> EmptyDict,
   bucket_cutoffs |-> <<>>, label_set |-> <<>>, bucket_strs |-> <<>>]

\* FreqWordBucketer(freq_counts=..., bucket_cutoffs=..., case_insensitive=...)
FreqWordBucketer(freq_counts, cutoffs, case_insensitive) ==
  [cls |-> "freq", case_insensitive |-> case_insensitive, freq_counts |-> freq_counts,
   bucket_cutoffs |-> cutoffs, label_set |-> <<>>,
   bucket_strs |-> BucketStrs(cutoffs, "int")]

\* CaseWordBucketer(); case_insensitive is what calc_statistics_and_examples
\* and its siblings set when the attribute is missing
CaseWordBucketer ==
  [cls |-> "case", case_insensitive |-> FALSE, freq_counts |-> EmptyDict,
   bucket_cutoffs |-> <<>>, label_set |-> <<>>,
   bucket_strs |-> << <<"l","o","w","e","r">>, <<"u","p","p","e","r">>,
                      <<"t","i","t","l","e">>, <<"o","t","h","e","r">> >>]

\* LabelWordBucketer(label_set=[...])
LabelWordBucketer(label_set) ==
  [cls |-> "label", case_insensitive |-> FALSE, freq_counts |-> EmptyDict,
   bucket_cutoffs |-> <<>>, label_set |-> label_set,
   bucket_strs |-> label_set \o << <<"o","t","h","e","r">> >>]

\* self.bucket_map[label]: the last position of label in label_set, else the
\* default len(label_set)
BucketMap(label_set, label) ==
  IF \E i \in DOMAIN label_set : label_set[i] = label
  THEN (CHOOSE i \in DOMAIN label_set :
          /\ label_set[i] = label
          /\ \A j \in DOMAIN label_set : label_set[j] = label => j <= i) - 1
  ELSE Len(label_set)

\* calc_bucket raises ValueError
CalcBucketRaises(bk, word, label) == bk.cls = "label" /\ Falsy(label)

FreqCalcBucket(bk, word) ==
  IF bk.case_insensitive
  THEN cutoff_into_bucket(bk.bucket_cutoffs, DictGet(bk.freq_counts, lower(word), 0))
  ELSE cutoff_into_bucket(bk.bucket_cutoffs, DictGet(bk.freq_counts, word, 0))

CaseCalcBucket(word) ==
  IF islower(word) THEN 0
  ELSE IF isupper(word) THEN 1
  ELSE IF istitle(word) THEN 2
  ELSE 3

\* the bucket calc_bucket returns when it does not raise
calc_bucket(bk, word, label) ==
  CASE bk.cls = "freq" -> FreqCalcBucket(bk, word)
    [] bk.cls = "case" -> CaseCalcBucket(word)
    [] bk.cls = "label" -> BucketMap(bk.label_set, label)

NumBuckets(bk) == Len(bk.bucket_strs)

\* ------------------------------------------------------------------------
\* WordBucketer._calc_sent_buckets_and_matches
\* ------------------------------------------------------------------------
\* zip_longest(sent, label if label else []): the label beside word i
LabelAt(label, i) == IF i \in DOMAIN label THEN label[i] ELSE None_

\* the word as the matching sees it
NormWord(bk, word) == IF bk.case_insensitive THEN lower(word) ELSE word

\* ref_pos after the reference loop: word -> its 0-based positions, ascending
RECURSIVE PositionsOf(_, _, _, _)
PositionsOf(bk, sent, w, i) ==
  IF i > Len(sent) THEN <<>>
  ELSE (IF NormWord(bk, sent[i]) = w THEN <<i - 1>> ELSE <<>>)
         \o PositionsOf(bk, sent, w, i + 1)

RefPos(bk, sent) ==
  [w \in {NormWord(bk, sent[i]) : i \in DOMAIN sent} |-> PositionsOf(bk, sent, w, 1)]

RefRaises(bk, sent, label) ==
  \E i \in DOMAIN sent : CalcBucketRaises(bk, NormWord(bk, sent[i]), LabelAt(label, i))

RefBuckets(bk, sent, label) ==
  [i \in DOMAIN sent |-> calc_bucket(bk, NormWord(bk, sent[i]), LabelAt(label, i))]

\* `if not bucket` after the lookup: bucket is None (no match) or 0
NoBucket(matched, bucket) == ~matched \/ bucket = 0

\* out_word_cnts at the start of an output's loop
CarriedOutWordCnts(previous) == previous

FreshOutWordCnts(previous) == EmptyDict

\* the position in ref_poss an output word with count cnt claims
ClaimLast(ref_poss, cnt) == ref_poss[Len(ref_poss) - cnt]

Claim(ref_poss, cnt) == ref_poss[cnt + 1]

\* lines 63-76: one output token against the processed reference, with the
\* output's counts so far
OutWord(bk, rpos, rbuckets, word, out_lab, cnts) ==
  LET out_word == NormWord(bk, word)
      ref_poss == DictGet(rpos, out_word, <<>>)
      out_word_cnt == DictGet(cnts, out_word, 0)
      matched == ref_poss # <<>> /\ out_word_cnt < Len(ref_poss)
      m == IF matched THEN Claim(ref_poss, out_word_cnt) ELSE 0 - 1
      rb == IF matched THEN rbuckets[m + 1] ELSE 0
      own == NoBucket(matched, rb)
      raises == own /\ CalcBucketRaises(bk, out_word, out_lab)
  IN [cnts |-> IF ref_poss # <<>>
               THEN DictPut(cnts, out_word, out_word_cnt + 1)
               ELSE cnts,
      match |-> m,
      bucket |-> IF raises THEN 0 - 1
                 ELSE IF own THEN calc_bucket(bk, out_word, out_lab)
                 ELSE rb,
      raised |-> raises]

\* ------------------------------------------------------------------------
\* The inputs of the word-level engines
\* ------------------------------------------------------------------------
WA == <<"a">>
WUpperA == <<"A">>
WB == <<"b">>
LX == <<"X">>
LY == <<"Y">>

Words == {WA, WUpperA, WB}
LabelledTokens == {<<WA, LX>>, <<WA, LY>>, <<WB, LY>>}

\* a token is <<word, label>>; without labels zip_longest pairs it with None
Tokens(labelled) == IF labelled THEN LabelledTokens ELSE {<<w, None_>> : w \in Words}

WordBucketers ==
  {FreqWordBucketer((WA :> 1) @@ (WB :> 2), <<1, 2>>, FALSE),
   FreqWordBucketer((WA :> 1) @@ (WB :> 2), <<1, 2>>, TRUE),
   CaseWordBucketer,
   LabelWordBucketer(<<LX>>)}

\* a sentence with its labels: label is <<>> when the corpus has none
Sentence(labelled, t) ==
  [labelled |-> labelled, sent |-> [i \in DOMAIN t |-> t[i][1]],
   label |-> IF labelled THEN [i \in DOMAIN t |-> t[i][2]] ELSE <<>>]

MatchSentences ==
  UNION {{Sentence(l, t) : t \in SeqsUpTo(Tokens(l), MaxLen)} : l \in BOOLEAN}

\* ------------------------------------------------------------------------
\* One sentence through _calc_sent_buckets_and_matches: the reference, then
\* each output sentence token by token
\* ------------------------------------------------------------------------
InitMatch ==
  /\ m_pc = "new"
  /\ bucketer = NoBucketer
  /\ m_labelled = FALSE
  /\ ref_sent = <<>>
  /\ ref_label = <<>>
  /\ ref_pos = EmptyDict
  /\ ref_buckets = <<>>
  /\ oai = 0
  /\ out_sent = <<>>
  /\ out_label = <<>>
  /\ out_word_cnts = EmptyDict
  /\ matches = <<>>
  /\ out_buckets = <<>>

MatchConstruct ==
  /\ m_pc = "new"
  /\ bucketer' \in WordBucketers
  /\ m_pc' = "ready"
  /\ UNCHANGED <<m_labelled, ref_sent, ref_label, ref_pos, ref_buckets, oai,
                 out_sent, out_label, out_word_cnts, matches, out_buckets>>
  /\ UNCHANGED othersMatch

\* lines 49-56: the reference sentence
MatchProcessRef ==
  /\ m_pc = "ready"
  /\ \E r \in MatchSentences :
       /\ m_labelled' = r.labelled
       /\ ref_sent' = r.sent
       /\ ref_label' = r.label
       /\ IF RefRaises(bucketer, r.sent, r.label)
          THEN /\ m_pc' = "error"
               /\ ref_pos' = EmptyDict
               /\ ref_buckets' = <<>>
          ELSE /\ m_pc' = "ref_done"
               /\ ref_pos' = RefPos(bucketer, r.sent)
               /\ ref_buckets' = RefBuckets(bucketer, r.sent, r.label)
  /\ UNCHANGED <<bucketer, oai, out_sent, out_label, out_word_cnts, matches, out_buckets>>
  /\ UNCHANGED othersMatch

\* lines 60-61: the next output sentence starts
MatchNextOutput ==
  /\ m_pc \in {"ref_done", "out"}
  /\ oai < MaxOuts
  /\ oai' = oai + 1
  /\ out_word_cnts' = FreshOutWordCnts(out_word_cnts)
  /\ out_sent' = <<>>
  /\ out_label' = <<>>
  /\ matches' = <<>>
  /\ out_buckets' = <<>>
  /\ m_pc' = "out"
  /\ UNCHANGED <<bucketer, m_labelled, ref_sent, ref_label, ref_pos, ref_buckets>>
  /\ UNCHANGED othersMatch

\* lines 62-76: the next token of the current output sentence
MatchProcessOutWord ==
  /\ m_pc = "out"
  /\ Len(out_sent) < MaxLen
  /\ \E t \in Tokens(m_labelled) :
       LET res == OutWord(bucketer, ref_pos, ref_buckets, t[1], t[2], out_word_cnts)
       IN /\ out_sent' = Append(out_sent, t[1])
          /\ out_label' = IF m_labelled THEN Append(out_label, t[2]) ELSE <<>>
          /\ out_word_cnts' = res.cnts
          /\ matches' = Append(matches, res.match)
          /\ out_buckets' = Append(out_buckets, res.bucket)
          /\ m_pc' = IF res.raised THEN "error" ELSE "out"
  /\ UNCHANGED <<bucketer, m_labelled, ref_sent, ref_label, ref_pos, ref_buckets, oai>>
  /\ UNCHANGED othersMatch

NextMatch == MatchConstruct \/ MatchProcessRef \/ MatchNextOutput \/ MatchProcessOutWord

\* ------------------------------------------------------------------------
\* Floats: <<n, d>> in lowest terms with d > 0; <<1, 0>> is inf, <<0, 0>> nan
\* ------------------------------------------------------------------------
Abs(x) == IF x < 0 THEN 0 - x ELSE x

RECURSIVE Gcd(_, _)
Gcd(a, b) == IF b = 0 THEN a ELSE Gcd(b, a % b)

Inf == <<1, 0>>
NaN == <<0, 0>>
Zero == <<0, 1>>
One == <<1, 1>>

IsNaN(x) == x = NaN
IsInf(x) == x = Inf

Frac(n, d) ==
  LET g == Gcd(Abs(n), Abs(d))
  IN IF d < 0 THEN <<(0 - n) \div g, (0 - d) \div g>> ELSE <<n \div g, d \div g>>

\* a / float(b) in numpy arithmetic, for counts a, b >= 0
NumpyDiv(a, b) == IF b = 0 THEN (IF a = 0 THEN NaN ELSE Inf) ELSE Frac(a, b)

FMul(x, y) ==
  IF IsNaN(x) \/ IsNaN(y) THEN NaN
  ELSE IF IsInf(x) \/ IsInf(y)
       THEN (IF x = Zero \/ y = Zero THEN NaN ELSE Inf)
  ELSE Frac(x[1] * y[1], x[2] * y[2])

FAdd(x, y) ==
  IF IsNaN(x) \/ IsNaN(y) THEN NaN
  ELSE IF IsInf(x) \/ IsInf(y) THEN Inf
  ELSE Frac(x[1] * y[2] + y[1] * x[2], x[2] * y[2])

FDiv(x, y) ==
  IF IsNaN(x) \/ IsNaN(y) THEN NaN
  ELSE IF IsInf(x) THEN (IF IsInf(y) THEN NaN ELSE Inf)
  ELSE IF IsInf(y) THEN Zero
  ELSE IF y = Zero THEN (IF x = Zero THEN NaN ELSE Inf)
  ELSE Frac(x[1] * y[2], x[2] * y[1])

\* ------------------------------------------------------------------------
\* WordBucketer.calc_statistics_and_examples
\* ------------------------------------------------------------------------
Zeros(n) == [i \in 1..n |-> 0]

Zeros2(k, n) == [o \in 1..k |-> Zeros(n)]

\* v[b] += 1 for a bucket index b
Incr(v, b) == [v EXCEPT ![b + 1] = @ + 1]

VecAdd(u, v) == [i \in DOMAIN u |-> u[i] + v[i]]

\* my_ref_total after `for b in ref_buckets: my_ref_total[b] += 1`
RECURSIVE CountBuckets(_, _, _)
CountBuckets(buckets, i, acc) ==
  IF i > Len(buckets) THEN acc
  ELSE CountBuckets(buckets, i + 1, Incr(acc, buckets[i]))

\* lines 151-158
Statistic(mcnt, ocnt, rcnt) ==
  IF mcnt = 0 THEN <<mcnt, rcnt, ocnt, Zero, Zero, Zero>>
  ELSE LET rec == NumpyDiv(mcnt, rcnt)
           prec == NumpyDiv(mcnt, ocnt)
       IN <<mcnt, rcnt, ocnt, rec, prec,
            FDiv(FMul(FMul(<<2, 1>>, prec), rec), FAdd(prec, rec))>>

Statistics(k, n, matched, outs, refs) ==
  [o \in 1..k |-> [b \in 1..n |-> Statistic(matched[o][b], outs[o][b], refs[b])]]

\* the corpora of the statistics: sentences of up to two tokens
StatLens == 0..2

StatTokens(labelled) ==
  IF labelled THEN {<<WA, LX>>, <<WA, LY>>} ELSE {<<WA, None_>>, <<WUpperA, None_>>}

StatSentences ==
  UNION {{Sentence(l, t) : t \in UNION {[1..n -> StatTokens(l)] : n \in StatLens}} :
           l \in BOOLEAN}

NumOutsChoices == 1..2

\* the bucketers of the statistics calls; labels are passed to the bucketer
\* that reads them, and may be missing for it
StatBucketers ==
  {FreqWordBucketer((WA :> 1) @@ (WB :> 2), <<1, 2>>, TRUE),
   CaseWordBucketer,
   LabelWordBucketer(<<LX>>)}

StatLabelled(bk) == IF bk.cls = "label" THEN BOOLEAN ELSE {FALSE}

InitStats ==
  /\ s_pc = "new"
  /\ s_bucketer = NoBucketer
  /\ s_labelled = FALSE
  /\ num_outs = 0
  /\ rsi = 0
  /\ s_ref_sent = <<>>
  /\ s_ref_label = <<>>
  /\ s_ref_pos = EmptyDict
  /\ s_ref_buckets = <<>>
  /\ s_oai = 0
  /\ s_out_len = 0
  /\ s_out_word_cnts = EmptyDict
  /\ my_ref_total = <<>>
  /\ my_out_totals = <<>>
  /\ my_out_matches = <<>>
  /\ ref_total = <<>>
  /\ out_totals = <<>>
  /\ out_matches = <<>>
  /\ statistics = <<>>
  /\ same = TRUE

StatsConstruct ==
  /\ s_pc = "new"
  /\ s_bucketer' \in StatBucketers
  /\ s_pc' = "ready"
  /\ UNCHANGED <<s_labelled, num_outs, rsi, s_ref_sent, s_ref_label, s_ref_pos,
                 s_ref_buckets, s_oai, s_out_len, s_out_word_cnts, my_ref_total,
                 my_out_totals, my_out_matches, ref_total, out_totals, out_matches,
                 statistics, same>>
  /\ UNCHANGED othersStats

\* lines 103-116: the call, with the number of output corpora and whether
\* labels are passed
StatsCall ==
  /\ s_pc = "ready"
  /\ \E k \in NumOutsChoices, l \in StatLabelled(s_bucketer) :
       /\ num_outs' = k
       /\ s_labelled' = l
       /\ ref_total' = Zeros(NumBuckets(s_bucketer))
       /\ out_totals' = Zeros2(k, NumBuckets(s_bucketer))
       /\ out_matches' = Zeros2(k, NumBuckets(s_bucketer))
       /\ same' = (k = 1)
  /\ rsi' = 0
  /\ s_pc' = "sent"
  /\ UNCHANGED <<s_bucketer, s_ref_sent, s_ref_label, s_ref_pos, s_ref_buckets, s_oai,
                 s_out_len, s_out_word_cnts, my_ref_total, my_out_totals,
                 my_out_matches, statistics>>
  /\ UNCHANGED othersStats

\* lines 119, 49-56 and 125-129: the next reference sentence
StatsRefSent ==
  /\ s_pc = "sent"
  /\ rsi < MaxSents
  /\ \E r \in StatSentences :
       /\ r.labelled = s_labelled
       /\ s_ref_sent' = r.sent
       /\ s_ref_label' = r.label
       /\ IF RefRaises(s_bucketer, r.sent, r.label)
          THEN /\ s_pc' = "error"
               /\ s_ref_pos' = EmptyDict
               /\ s_ref_buckets' = <<>>
               /\ UNCHANGED my_ref_total
          ELSE /\ s_pc' = "ref_done"
               /\ s_ref_pos' = RefPos(s_bucketer, r.sent)
               /\ s_ref_buckets' = RefBuckets(s_bucketer, r.sent, r.label)
               /\ my_ref_total' =
                    CountBuckets(RefBuckets(s_bucketer, r.sent, r.label), 1,
                                 Zeros(NumBuckets(s_bucketer)))
  /\ my_out_totals' = Zeros2(num_outs, NumBuckets(s_bucketer))
  /\ my_out_matches' = Zeros2(num_outs, NumBuckets(s_bucketer))
  /\ s_oai' = 0
  /\ s_out_len' = 0
  /\ UNCHANGED <<s_bucketer, s_labelled, num_outs, rsi, s_out_word_cnts, ref_total,
                 out_totals, out_matches, statistics, same>>
  /\ UNCHANGED othersStats

\* same: there is one output corpus, and so far it is the reference corpus,
\* labels included
SameSoFar == same /\ (s_pc = "out" => s_out_len = Len(s_ref_sent))

\* lines 60-61: the next output sentence of this reference sentence
StatsNextOutput ==
  /\ s_pc \in {"ref_done", "out"}
  /\ s_oai < num_outs
  /\ s_oai' = s_oai + 1
  /\ s_out_len' = 0
  /\ s_out_word_cnts' = FreshOutWordCnts(s_out_word_cnts)
  /\ same' = SameSoFar
  /\ s_pc' = "out"
  /\ UNCHANGED <<s_bucketer, s_labelled, num_outs, rsi, s_ref_sent, s_ref_label,
                 s_ref_pos, s_ref_buckets, my_ref_total, my_out_totals, my_out_matches,
                 ref_total, out_totals, out_matches, statistics>>
  /\ UNCHANGED othersStats

\* lines 62-76 and 131-134: the next token of the current output sentence
StatsOutWord ==
  /\ s_pc = "out"
  /\ s_out_len + 1 \in StatLens
  /\ \E t \in StatTokens(s_labelled) :
       LET res == OutWord(s_bucketer, s_ref_pos, s_ref_buckets, t[1], t[2],
                          s_out_word_cnts)
       IN /\ s_out_word_cnts' = res.cnts
          /\ IF res.raised
             THEN /\ s_pc' = "error"
                  /\ UNCHANGED <<my_out_totals, my_out_matches>>
             ELSE /\ s_pc' = "out"
                  /\ my_out_totals' =
                       [my_out_totals EXCEPT ![s_oai] = Incr(@, res.bucket)]
                  /\ my_out_matches' =
                       IF res.match >= 0
                       THEN [my_out_matches EXCEPT ![s_oai] = Incr(@, res.bucket)]
                       ELSE my_out_matches
          /\ same' = (/\ same
                      /\ s_out_len + 1 <= Len(s_ref_sent)
                      /\ t[1] = s_ref_sent[s_out_len + 1]
                      /\ t[2] = LabelAt(s_ref_label, s_out_len + 1))
  /\ s_out_len' = s_out_len + 1
  /\ UNCHANGED <<s_bucketer, s_labelled, num_outs, rsi, s_ref_sent, s_ref_label,
                 s_ref_pos, s_ref_buckets, s_oai, my_ref_total, ref_total, out_totals,
                 out_matches, statistics>>
  /\ UNCHANGED othersStats

\* lines 135-137: the sentence's counts join the totals; what the next
\* iteration overwrites before reading is cleared here
StatsEndSent ==
  /\ s_pc = "out"
  /\ s_oai = num_outs
  /\ ref_total' = VecAdd(ref_total, my_ref_total)
  /\ out_totals' = [o \in 1..num_outs |-> VecAdd(out_totals[o], my_out_totals[o])]
  /\ out_matches' = [o \in 1..num_outs |-> VecAdd(out_matches[o], my_out_matches[o])]
  /\ same' = SameSoFar
  /\ rsi' = rsi + 1
  /\ s_pc' = "sent"
  /\ s_ref_sent' = <<>>
  /\ s_ref_label' = <<>>
  /\ s_ref_pos' = EmptyDict
  /\ s_ref_buckets' = <<>>
  /\ s_oai' = 0
  /\ s_out_len' = 0
  /\ s_out_word_cnts' = EmptyDict
  /\ my_ref_total' = <<>>
  /\ my_out_totals' = <<>>
  /\ my_out_matches' = <<>>
  /\ UNCHANGED <<s_bucketer, s_labelled, num_outs, statistics>>
  /\ UNCHANGED othersStats

\* lines 147-158: the corpus is exhausted
StatsFinish ==
  /\ s_pc = "sent"
  /\ statistics' = Statistics(num_outs, NumBuckets(s_bucketer), out_matches, out_totals,
                              ref_total)
  /\ s_pc' = "done"
  /\ UNCHANGED <<s_bucketer, s_labelled, num_outs, rsi, s_ref_sent, s_ref_label,
                 s_ref_pos, s_ref_buckets, s_oai, s_out_len, s_out_word_cnts,
                 my_ref_total, my_out_totals, my_out_matches, ref_total, out_totals,
                 out_matches, same>>
  /\ UNCHANGED othersStats

NextStats ==
  \/ StatsConstruct \/ StatsCall \/ StatsRefSent \/ StatsNextOutput \/ StatsOutWord
  \/ StatsEndSent \/ StatsFinish

\* ------------------------------------------------------------------------
\* WordBucketer.calc_source_bucketed_matches
\* ------------------------------------------------------------------------
SrcBucketers ==
  {FreqWordBucketer((WA :> 1) @@ (WB :> 2), <<1, 2>>, FALSE),
   FreqWordBucketer((WA :> 1) @@ (WB :> 2), <<1, 2>>, TRUE),
   LabelWordBucketer(<<LX>>)}

\* source, reference and output sentences of up to two tokens, alignments of
\* up to two pairs, corpora of up to two sentences
SrcLens == 0..2
SrcMaxPairs == 2
SrcMaxSents == 2

SrcTokens(labelled) ==
  IF labelled THEN {<<WA, LX>>, <<WA, LY>>} ELSE {<<WA, None_>>, <<WB, None_>>}

SrcSentences(l) ==
  {Sentence(l, t) : t \in UNION {[1..n -> SrcTokens(l)] : n \in SrcLens}}

TargetSentences == UNION {[1..n -> {WA, WUpperA}] : n \in SrcLens}

\* ref_cnt after the loop over the reference sentence
RECURSIVE RefCnt(_, _, _, _)
RefCnt(bk, sent, i, cnt) ==
  IF i > Len(sent) THEN cnt
  ELSE LET word == NormWord(bk, sent[i])
       IN RefCnt(bk, sent, i + 1, DictPut(cnt, word, DictGet(cnt, word, 0) + 1))

\* src_lab[src_index] if src_lab else None, for a 0-based src_index
SrcLabelAt(lab, src_index) == IF lab # <<>> THEN lab[src_index + 1] ELSE None_

\* matches[bucket][k] += 1, k in 0..2
IncrMatch(m, bucket, k) == [m EXCEPT ![bucket + 1][k + 1] = @ + 1]

InitSrc ==
  /\ x_pc = "new"
  /\ x_bucketer = NoBucketer
  /\ x_labelled = FALSE
  /\ x_nsents = 0
  /\ src_sent = <<>>
  /\ src_lab = <<>>
  /\ x_out_sent = <<>>
  /\ ref_cnt = EmptyDict
  /\ x_pairs = 0
  /\ x_matches = <<>>
  /\ x_bi = 0
  /\ x_yielded = <<>>

SrcConstruct ==
  /\ x_pc = "new"
  /\ x_bucketer' \in SrcBucketers
  /\ x_pc' = "ready"
  /\ UNCHANGED <<x_labelled, x_nsents, src_sent, src_lab, x_out_sent, ref_cnt, x_pairs,
                 x_matches, x_bi, x_yielded>>
  /\ UNCHANGED othersSrc

\* lines 196-200: the generator starts
SrcCall ==
  /\ x_pc = "ready"
  /\ x_labelled' \in StatLabelled(x_bucketer)
  /\ x_matches' = [b \in 1..NumBuckets(x_bucketer) |-> <<0, 0, 0>>]
  /\ x_pc' = "sent"
  /\ UNCHANGED <<x_bucketer, x_nsents, src_sent, src_lab, x_out_sent, ref_cnt, x_pairs,
                 x_bi, x_yielded>>
  /\ UNCHANGED othersSrc

\* lines 201-206: the next sentence triple, and the reference's word counts
SrcSentence ==
  /\ x_pc = "sent"
  /\ x_nsents < SrcMaxSents
  /\ \E sr \in SrcSentences(x_labelled), r \in TargetSentences, o \in TargetSentences :
       /\ src_sent' = sr.sent
       /\ src_lab' = sr.label
       /\ x_out_sent' = o
       /\ ref_cnt' = RefCnt(x_bucketer, r, 1, EmptyDict)
  /\ x_pairs' = 0
  /\ x_pc' = "out_align"
  /\ UNCHANGED <<x_bucketer, x_labelled, x_nsents, x_matches, x_bi, x_yielded>>
  /\ UNCHANGED othersSrc

\* lines 207-217: the next pair of the output alignment, its indices in range
SrcOutPair ==
  /\ x_pc = "out_align"
  /\ x_pairs < SrcMaxPairs
  /\ \E src_index \in 0..(Len(src_sent) - 1), trg_index \in 0..(Len(x_out_sent) - 1) :
       LET src_word == src_sent[src_index + 1]
           word == NormWord(x_bucketer, x_out_sent[trg_index + 1])
           label == SrcLabelAt(src_lab, src_index)
           bucket == calc_bucket(x_bucketer, src_word, label)
       IN IF CalcBucketRaises(x_bucketer, src_word, label)
          THEN /\ x_pc' = "ValueError"
               /\ UNCHANGED <<ref_cnt, x_matches>>
          ELSE /\ x_pc' = "out_align"
               /\ IF DictGet(ref_cnt, word, 0) > 0
                  THEN /\ ref_cnt' = DictPut(ref_cnt, word, ref_cnt[word] - 1)
                       /\ x_matches' = IncrMatch(IncrMatch(x_matches, bucket, 0), bucket, 2)
                  ELSE /\ ref_cnt' = ref_cnt
                       /\ x_matches' = IncrMatch(x_matches, bucket, 2)
  /\ x_pairs' = x_pairs + 1
  /\ UNCHANGED <<x_bucketer, x_labelled, x_nsents, src_sent, src_lab, x_out_sent, x_bi,
                 x_yielded>>
  /\ UNCHANGED othersSrc

\* the output alignment is exhausted
SrcOutAlignDone ==
  /\ x_pc = "out_align"
  /\ x_pc' = "ref_align"
  /\ x_pairs' = 0
  /\ UNCHANGED <<x_bucketer, x_labelled, x_nsents, src_sent, src_lab, x_out_sent,
                 ref_cnt, x_matches, x_bi, x_yielded>>
  /\ UNCHANGED othersSrc

\* lines 218-222: the next pair of the reference alignment; trg_index is not read
SrcRefPair ==
  /\ x_pc = "ref_align"
  /\ x_pairs < SrcMaxPairs
  /\ \E src_index \in 0..(Len(src_sent) - 1) :
       LET src_word == src_sent[src_index + 1]
           label == SrcLabelAt(src_lab, src_index)
       IN IF CalcBucketRaises(x_bucketer, src_word, label)
          THEN /\ x_pc' = "ValueError"
               /\ UNCHANGED x_matches
          ELSE /\ x_pc' = "ref_align"
               /\ x_matches' =
                    IncrMatch(x_matches, calc_bucket(x_bucketer, src_word, label), 1)
  /\ x_pairs' = x_pairs + 1
  /\ UNCHANGED <<x_bucketer, x_labelled, x_nsents, src_sent, src_lab, x_out_sent,
                 ref_cnt, x_bi, x_yielded>>
  /\ UNCHANGED othersSrc

\* the reference alignment is exhausted: the sentence is done
SrcEndSentence ==
  /\ x_pc = "ref_align"
  /\ x_pc' = "sent"
  /\ x_nsents' = x_nsents + 1
  /\ src_sent' = <<>>
  /\ src_lab' = <<>>
  /\ x_out_sent' = <<>>
  /\ ref_cnt' = EmptyDict
  /\ x_pairs' = 0
  /\ UNCHANGED <<x_bucketer, x_labelled, x_matches, x_bi, x_yielded>>
  /\ UNCHANGED othersSrc

\* the corpus is exhausted
SrcLoopDone ==
  /\ x_pc = "sent"
  /\ x_pc' = "yield"
  /\ x_bi' = 0
  /\ UNCHANGED <<x_bucketer, x_labelled, x_nsents, src_sent, src_lab, x_out_sent,
                 ref_cnt, x_pairs, x_matches, x_yielded>>
  /\ UNCHANGED othersSrc

\* lines 224-231: the next bucket's tuple; these are Python ints, and a
\* division by float(0) raises ZeroDivisionError
SrcYield ==
  /\ x_pc = "yield"
  /\ x_bi < Len(x_matches)
  /\ LET both_tot == x_matches[x_bi + 1][1]
         ref_tot == x_matches[x_bi + 1][2]
         out_tot == x_matches[x_bi + 1][3]
     IN IF both_tot = 0
        THEN /\ x_yielded' = Append(x_yielded, <<both_tot, ref_tot, out_tot, Zero, Zero, Zero>>)
             /\ x_pc' = "yield"
        ELSE IF ref_tot = 0 \/ out_tot = 0
        THEN /\ x_yielded' = x_yielded
             /\ x_pc' = "ZeroDivisionError"
        ELSE /\ x_yielded' =
                  Append(x_yielded,
                         <<both_tot, ref_tot, out_tot, Frac(both_tot, ref_tot),
                           Frac(both_tot, out_tot),
                           FDiv(FMul(FMul(<<2, 1>>, Frac(both_tot, out_tot)),
                                     Frac(both_tot, ref_tot)),
                                FAdd(Frac(both_tot, out_tot), Frac(both_tot, ref_tot)))>>)
             /\ x_pc' = "yield"
  /\ x_bi' = x_bi + 1
  /\ UNCHANGED <<x_bucketer, x_labelled, x_nsents, src_sent, src_lab, x_out_sent,
                 ref_cnt, x_pairs, x_matches>>
  /\ UNCHANGED othersSrc

\* the generator is exhausted
SrcStop ==
  /\ x_pc = "yield"
  /\ x_bi = Len(x_matches)
  /\ x_pc' = "done"
  /\ UNCHANGED <<x_bucketer, x_labelled, x_nsents, src_sent, src_lab, x_out_sent,
                 ref_cnt, x_pairs, x_matches, x_bi, x_yielded>>
  /\ UNCHANGED othersSrc

NextSrc ==
  \/ SrcConstruct \/ SrcCall \/ SrcSentence \/ SrcOutPair \/ SrcOutAlignDone
  \/ SrcRefPair \/ SrcEndSentence \/ SrcLoopDone \/ SrcYield \/ SrcStop


\* ------------------------------------------------------------------------
\* Sentence bucketers and SentenceBucketer.create_bucketed_corpus
\* ------------------------------------------------------------------------
LengthSentenceBucketer(cutoffs) ==
  [cls |-> "length", bucket_cutoffs |-> cutoffs, label_set |-> <<>>,
   bucket_strs |-> BucketStrs(cutoffs, "int")]

LengthDiffSentenceBucketer(cutoffs) ==
  [cls |-> "lengthdiff", bucket_cutoffs |-> cutoffs, label_set |-> <<>>,
   bucket_strs |-> BucketStrs(cutoffs, "int")]

LabelSentenceBucketer(label_set) ==
  [cls |-> "label", bucket_cutoffs |-> <<>>, label_set |-> label_set,
   bucket_strs |-> label_set \o << <<"o","t","h","e","r">> >>]

NoSentenceBucketer ==
  [cls |-> "none", bucket_cutoffs |-> <<>>, label_set |-> <<>>, bucket_strs |-> <<>>]

\* calc_bucket(val, ref=..., label=...) of the sentence bucketers
SentCalcBucket(bk, val, ref, label) ==
  CASE bk.cls = "length" -> cutoff_into_bucket(bk.bucket_cutoffs, Len(val))
    [] bk.cls = "lengthdiff" -> cutoff_into_bucket(bk.bucket_cutoffs, Len(val) - Len(ref))
    [] bk.cls = "label" -> BucketMap(bk.label_set, label)

SentenceBucketers ==
  {LengthSentenceBucketer(<<1, 2>>),
   LengthDiffSentenceBucketer(<<0, 1>>),
   LabelSentenceBucketer(<<LX>>)}

CorpusSentences == {<<>>, <<WA>>, <<WA, WB>>}

InitSent ==
  /\ b_pc = "new"
  /\ b_bucketer = NoSentenceBucketer
  /\ b_ref_given = FALSE
  /\ b_labelled = FALSE
  /\ b_n = 0
  /\ b_out = <<>>
  /\ b_ref = <<>>
  /\ b_labels = <<>>
  /\ bucketed_corpus = <<>>

SentConstruct ==
  /\ b_pc = "new"
  /\ b_bucketer' \in SentenceBucketers
  /\ b_pc' = "ready"
  /\ UNCHANGED <<b_ref_given, b_labelled, b_n, b_out, b_ref, b_labels, bucketed_corpus>>
  /\ UNCHANGED othersSent

\* lines 445-450: the call, on an output corpus of n sentences, with or
\* without a reference corpus (of n sentences too) and labels.  An entry of
\* bucketed_corpus is (out list, ref list or None): has_ref says which.
CreateBucketedCorpus ==
  /\ b_pc = "ready"
  /\ \E n \in 0..MaxCorpus, given \in BOOLEAN, l \in StatLabelled(b_bucketer) :
       /\ b_n' = n
       /\ b_ref_given' = given
       /\ b_labelled' = l
       /\ bucketed_corpus' =
            [b \in 1..Len(b_bucketer.bucket_strs) |->
               [out |-> <<>>, has_ref |-> (given /\ n > 0), ref |-> <<>>]]
  /\ b_pc' = "loop"
  /\ UNCHANGED <<b_bucketer, b_out, b_ref, b_labels>>
  /\ UNCHANGED othersSent

\* lines 452-456: the next pair of zip(out, ref); ref is out when none was given
BucketSentence ==
  /\ b_pc = "loop"
  /\ Len(b_out) < b_n
  /\ \E out_words \in CorpusSentences, given_words \in CorpusSentences,
        lab \in (IF b_labelled THEN {LX, LY} ELSE {None_}) :
       LET ref_words == IF b_ref_given THEN given_words ELSE out_words
           bucket == SentCalcBucket(b_bucketer, out_words, ref_words, lab)
           entry == bucketed_corpus[bucket + 1]
       IN /\ b_ref_given \/ given_words = out_words
          /\ b_out' = Append(b_out, out_words)
          /\ b_ref' = Append(b_ref, ref_words)
          /\ b_labels' = Append(b_labels, lab)
          /\ IF entry.has_ref
             THEN /\ bucketed_corpus' =
                       [bucketed_corpus EXCEPT
                          ![bucket + 1] = [out |-> Append(entry.out, out_words),
                                           has_ref |-> TRUE,
                                           ref |-> Append(entry.ref, ref_words)]]
                  /\ b_pc' = "loop"
             ELSE /\ bucketed_corpus' =
                       [bucketed_corpus EXCEPT
                          ![bucket + 1].out = Append(entry.out, out_words)]
                  /\ b_pc' = "AttributeError"
  /\ UNCHANGED <<b_bucketer, b_ref_given, b_labelled, b_n>>
  /\ UNCHANGED othersSent

\* line 457
BucketReturn ==
  /\ b_pc = "loop"
  /\ Len(b_out) = b_n
  /\ b_pc' = "done"
  /\ UNCHANGED <<b_bucketer, b_ref_given, b_labelled, b_n, b_out, b_ref, b_labels,
                 bucketed_corpus>>
  /\ UNCHANGED othersSent

NextSent == SentConstruct \/ CreateBucketedCorpus \/ BucketSentence \/ BucketReturn

\* ------------------------------------------------------------------------
\* WordBucketer.calc_bucketed_likelihoods
\* ------------------------------------------------------------------------
LikBucketers ==
  {FreqWordBucketer((WA :> 1) @@ (WB :> 2), <<1, 2>>, FALSE),
   FreqWordBucketer((WA :> 1) @@ (WB :> 2), <<1, 2>>, TRUE),
   LabelWordBucketer(<<WA>>)}

\* a corpus token with its log-likelihood
LikTokens == {<<WA, 0 - 1>>, <<WUpperA, 0 - 3>>, <<WB, 0 - 3>>}

LikSentences == SeqsUpTo(LikTokens, MaxLikLen)

\* a list of likelihoods as long as its sentence, one shorter or one longer
LikList(lls, delta) ==
  CASE delta = 0 -> lls
    [] delta = 1 -> Append(lls, 0 - 1)
    [] delta = 0 - 1 -> IF lls = <<>> THEN lls ELSE SubSeq(lls, 1, Len(lls) - 1)

\* lines 257-262 over one sentence, from token i on
RECURSIVE LikSentence(_, _, _, _, _)
LikSentence(bk, sent, lls, i, acc) ==
  IF i > Len(sent) THEN acc
  ELSE LET word == NormWord(bk, sent[i])
           bucket == calc_bucket(bk, word, word)
       IN LikSentence(bk, sent, lls, i + 1,
                      [acc EXCEPT ![bucket + 1] = <<@[1] + lls[i], @[2] + 1>>])

\* what a bucket with a count yields: the mean, not the sum
LikSum(ll, count) == Frac(ll, 1)

LikMean(ll, count) == Frac(ll, count)

NA == [na |-> TRUE, val |-> Zero]

Number(x) == [na |-> FALSE, val |-> x]

InitLik ==
  /\ l_pc = "new"
  /\ l_bucketer = NoBucketer
  /\ l_ncorpus = 0
  /\ l_nlik = 0
  /\ l_corpus = <<>>
  /\ l_likelihoods = <<>>
  /\ bucketed_likelihoods = <<>>
  /\ l_bi = 0
  /\ l_yielded = <<>>

LikConstruct ==
  /\ l_pc = "new"
  /\ l_bucketer' \in LikBucketers
  /\ l_pc' = "ready"
  /\ UNCHANGED <<l_ncorpus, l_nlik, l_corpus, l_likelihoods, bucketed_likelihoods, l_bi,
                 l_yielded>>
  /\ UNCHANGED othersLik

\* lines 245-252: the generator starts on a corpus and likelihoods of the
\* given numbers of sentences
LikCall ==
  /\ l_pc = "ready"
  /\ \E nc \in 0..MaxLikSents, nl \in 0..MaxLikSents :
       /\ l_ncorpus' = nc
       /\ l_nlik' = nl
       /\ l_pc' = IF nc # nl THEN "ValueError" ELSE "loop"
  /\ bucketed_likelihoods' = [b \in 1..NumBuckets(l_bucketer) |-> <<0, 0>>]
  /\ UNCHANGED <<l_bucketer, l_corpus, l_likelihoods, l_bi, l_yielded>>
  /\ UNCHANGED othersLik

\* lines 253-262: the next sentence and its list of likelihoods
LikNextSentence ==
  /\ l_pc = "loop"
  /\ Len(l_corpus) < l_ncorpus
  /\ \E toks \in LikSentences, delta \in {0 - 1, 0, 1} :
       LET sent == [i \in DOMAIN toks |-> toks[i][1]]
           lls == LikList([i \in DOMAIN toks |-> toks[i][2]], delta)
       IN
       /\ l_corpus' = Append(l_corpus, sent)
       /\ l_likelihoods' = Append(l_likelihoods, lls)
       /\ IF Len(sent) # Len(lls)
          THEN /\ l_pc' = "ValueError"
               /\ UNCHANGED bucketed_likelihoods
          ELSE /\ l_pc' = "loop"
               /\ bucketed_likelihoods' =
                    LikSentence(l_bucketer, sent, lls, 1, bucketed_likelihoods)
  /\ UNCHANGED <<l_bucketer, l_ncorpus, l_nlik, l_bi, l_yielded>>
  /\ UNCHANGED othersLik

\* the corpus is exhausted
LikLoopDone ==
  /\ l_pc = "loop"
  /\ Len(l_corpus) = l_ncorpus
  /\ l_pc' = "yield"
  /\ l_bi' = 0
  /\ UNCHANGED <<l_bucketer, l_ncorpus, l_nlik, l_corpus, l_likelihoods,
                 bucketed_likelihoods, l_yielded>>
  /\ UNCHANGED othersLik

\* lines 264-268: the next bucket's result
LikYield ==
  /\ l_pc = "yield"
  /\ l_bi < Len(bucketed_likelihoods)
  /\ LET ll == bucketed_likelihoods[l_bi + 1][1]
         count == bucketed_likelihoods[l_bi + 1][2]
     IN l_yielded' = Append(l_yielded,
                            IF count # 0 THEN Number(LikMean(ll, count)) ELSE NA)
  /\ l_bi' = l_bi + 1
  /\ UNCHANGED <<l_pc, l_bucketer, l_ncorpus, l_nlik, l_corpus, l_likelihoods,
                 bucketed_likelihoods>>
  /\ UNCHANGED othersLik

\* the generator is exhausted
LikStop ==
  /\ l_pc = "yield"
  /\ l_bi = Len(bucketed_likelihoods)
  /\ l_pc' = "done"
  /\ UNCHANGED <<l_bucketer, l_ncorpus, l_nlik, l_corpus, l_likelihoods,
                 bucketed_likelihoods, l_bi, l_yielded>>
  /\ UNCHANGED othersLik

NextLik == LikConstruct \/ LikCall \/ LikNextSentence \/ LikLoopDone \/ LikYield \/ LikStop

\* ------------------------------------------------------------------------
\* LabelWordBucketer.calc_bucket and LabelSentenceBucketer.calc_bucket
\* ------------------------------------------------------------------------
LZ == <<"Z">>

LabelSets == SeqsUpTo({LX, LY, LZ}, MaxLabelSet)

CallLabels == {None_, <<>>, LX, LY, LZ, <<"W">>}

InitLabel ==
  /\ lb_pc = "new"
  /\ lb_bucketer = [kind |-> "none", label_set |-> <<>>]
  /\ lb_label = None_
  /\ lb_bucket = 0

\* LabelWordBucketer(label_set) or LabelSentenceBucketer(label_set)
LabelConstruct ==
  /\ lb_pc = "new"
  /\ \E kind \in {"word", "sentence"}, label_set \in LabelSets :
       lb_bucketer' = [kind |-> kind, label_set |-> label_set]
  /\ lb_pc' = "ready"
  /\ UNCHANGED <<lb_label, lb_bucket>>
  /\ UNCHANGED othersLabel

\* calc_bucket(word, label=label) or calc_bucket(val, ref=..., label=label)
LabelCalcBucket ==
  /\ lb_pc \in {"ready", "returned", "ValueError"}
  /\ \E label \in CallLabels :
       /\ lb_label' = label
       /\ IF lb_bucketer.kind = "word"
          THEN LET bk == LabelWordBucketer(lb_bucketer.label_set)
               IN IF CalcBucketRaises(bk, WA, label)
                  THEN lb_pc' = "ValueError" /\ lb_bucket' = 0
                  ELSE lb_pc' = "returned" /\ lb_bucket' = calc_bucket(bk, WA, label)
          ELSE /\ lb_pc' = "returned"
               /\ lb_bucket' =
                    SentCalcBucket(LabelSentenceBucketer(lb_bucketer.label_set),
                                   <<WA>>, <<WA>>, label)
  /\ UNCHANGED lb_bucketer
  /\ UNCHANGED othersLabel

NextLabel == LabelConstruct \/ LabelCalcBucket

\* ------------------------------------------------------------------------
\* FreqWordBucketer.__init__
\* ------------------------------------------------------------------------
\* An argument of the constructor: not given (None), given but empty ({},
\* '' or []), or given with a value
Absent(empty) == [given |-> FALSE, truthy |-> FALSE, val |-> empty]

Empty(empty) == [given |-> TRUE, truthy |-> FALSE, val |-> empty]

Given(val) == [given |-> TRUE, truthy |-> TRUE, val |-> val]

\* int(freq) of a column of digits
RECURSIVE ParseInt(_)
ParseInt(str) ==
  IF str = <<>> THEN 0
  ELSE 10 * ParseInt(SubSeq(str, 1, Len(str) - 1))
       + (CHOOSE d \in 0..9 : Digit(d) = str[Len(str)])

\* lines 298-307: the lines of a counts file, each split at tabs, from line i on
RECURSIVE ReadCounts(_, _, _, _)
ReadCounts(freq_counts, lines, i, case_insensitive) ==
  IF i > Len(lines) THEN freq_counts
  ELSE LET cols == lines[i]
       IN IF Len(cols) # 2
          THEN ReadCounts(freq_counts, lines, i + 1, case_insensitive)
          ELSE LET word == IF case_insensitive THEN lower(cols[1]) ELSE cols[1]
               IN ReadCounts(DictPut(freq_counts, word, ParseInt(cols[2])), lines, i + 1,
                             case_insensitive)

\* lines 319-323 (and 311-315): the words of one sentence, from word i on
RECURSIVE CountWords(_, _, _, _)
CountWords(freq_counts, words, i, case_insensitive) ==
  IF i > Len(words) THEN freq_counts
  ELSE LET word == IF case_insensitive THEN lower(words[i]) ELSE words[i]
       IN CountWords(DictPut(freq_counts, word, DictGet(freq_counts, word, 0) + 1),
                     words, i + 1, case_insensitive)

\* lines 318-323 (and 310-315): the sentences of a corpus, from sentence i on
RECURSIVE CountCorpus(_, _, _, _)
CountCorpus(freq_counts, corpus, i, case_insensitive) ==
  IF i > Len(corpus) THEN freq_counts
  ELSE CountCorpus(CountWords(freq_counts, corpus[i], 1, case_insensitive), corpus, i + 1,
                   case_insensitive)

\* the source the constructor reads, taking the last supplied one
FreqSourceLast(args) ==
  IF args.freq_data.truthy THEN "freq_data"
  ELSE IF args.freq_corpus_file.truthy THEN "freq_corpus_file"
  ELSE IF args.freq_count_file.given THEN "freq_count_file"
  ELSE IF args.freq_counts.truthy THEN "freq_counts"
  ELSE "none"

\* lines 293, 295, 308, 316, 324: the source the constructor reads
FreqSource(args) ==
  IF args.freq_counts.truthy THEN "freq_counts"
  ELSE IF args.freq_count_file.given THEN "freq_count_file"
  ELSE IF args.freq_corpus_file.truthy THEN "freq_corpus_file"
  ELSE IF args.freq_data.truthy THEN "freq_data"
  ELSE "none"

\* lines 293-326: self.freq_counts when the constructor does not raise
FreqCounts(args) ==
  LET source == FreqSource(args)
  IN CASE source = "freq_counts" -> args.freq_counts.val
       [] source = "freq_count_file" ->
            ReadCounts(EmptyDict, args.freq_count_file.val, 1, args.case_insensitive)
       [] source = "freq_corpus_file" ->
            CountCorpus(EmptyDict, args.freq_corpus_file.val, 1, args.case_insensitive)
       [] source = "freq_data" ->
            CountCorpus(EmptyDict, args.freq_data.val, 1, args.case_insensitive)

FreqCountsArgs ==
  {Absent(EmptyDict), Empty(EmptyDict), Given((WA :> 1) @@ (WB :> 2)), Given(WUpperA :> 2)}

\* the lines of a counts file: word and count, or a line without a tab
CountLines == {<<WA, <<"1">>>>, <<WUpperA, <<"1", "0">>>>, <<WA>>}

FreqCountFileArgs == {Absent(<<>>)} \cup {Given(f) : f \in SeqsUpTo(CountLines, MaxFileLines)}

FreqCorpora == {<< <<WB>> >>, << <<WA, WUpperA>>, <<WA>> >>}

\* what corpus_utils.iterate_tokens yields for a corpus file
FreqCorpusFileArgs == {Absent(<<>>), Empty(<<>>)} \cup {Given(c) : c \in FreqCorpora}

FreqDataArgs == {Absent(<<>>), Empty(<<>>)} \cup {Given(c) : c \in FreqCorpora}

FreqCutoffArgs == {Absent(<<>>), Given(<<1, 2>>)}

NoArgs ==
  [freq_counts |-> Absent(EmptyDict), freq_count_file |-> Absent(<<>>),
   freq_corpus_file |-> Absent(<<>>), freq_data |-> Absent(<<>>),
   bucket_cutoffs |-> Absent(<<>>), case_insensitive |-> FALSE]

InitFreq ==
  /\ f_pc = "new"
  /\ f_args = NoArgs
  /\ f_bucketer = NoBucketer
  /\ f_word = <<>>
  /\ f_bucket = 0

\* lines 292-330
FreqConstruct ==
  /\ f_pc = "new"
  /\ \E fc \in FreqCountsArgs, ff \in FreqCountFileArgs, fcf \in FreqCorpusFileArgs,
        fd \in FreqDataArgs, bc \in FreqCutoffArgs, ci \in BOOLEAN :
       LET args == [freq_counts |-> fc, freq_count_file |-> ff, freq_corpus_file |-> fcf,
                    freq_data |-> fd, bucket_cutoffs |-> bc, case_insensitive |-> ci]
           cutoffs == IF bc.given THEN bc.val ELSE FreqDefaultCutoffs
       IN /\ f_args' = args
          /\ IF FreqSource(args) = "none"
             THEN /\ f_pc' = "ValueError"
                  /\ UNCHANGED f_bucketer
             ELSE /\ f_pc' = "constructed"
                  /\ f_bucketer' = FreqWordBucketer(FreqCounts(args), cutoffs, ci)
  /\ UNCHANGED <<f_word, f_bucket>>
  /\ UNCHANGED othersFreq

\* lines 332-336 on the constructed bucketer
FreqCalc ==
  /\ f_pc \in {"constructed", "bucketed"}
  /\ \E word \in Words :
       /\ f_word' = word
       /\ f_bucket' = calc_bucket(f_bucketer, word, None_)
  /\ f_pc' = "bucketed"
  /\ UNCHANGED <<f_args, f_bucketer>>
  /\ UNCHANGED othersFreq

NextFreq == FreqConstruct \/ FreqCalc

\* ------------------------------------------------------------------------
\* calc_statistics_and_examples: the example scores and the examples
\* ------------------------------------------------------------------------
\* lines 60-76 and 130-134 for one output sentence, from token i on: the
\* matches of the output per bucket, or the ValueError of calc_bucket
RECURSIVE OutMatches(_, _, _, _, _, _, _, _)
OutMatches(bk, rpos, rbuckets, sent, label, i, cnts, acc) ==
  IF i > Len(sent) THEN acc
  ELSE LET res == OutWord(bk, rpos, rbuckets, sent[i], LabelAt(label, i), cnts)
       IN IF res.raised THEN [acc EXCEPT !.raised = TRUE]
          ELSE OutMatches(bk, rpos, rbuckets, sent, label, i + 1, res.cnts,
                          [acc EXCEPT !.m = IF res.match >= 0 THEN Incr(@, res.bucket)
                                            ELSE @])

\* my_out_matches[oi] for an output sentence against a reference sentence
MyOutMatches(bk, r, o) ==
  OutMatches(bk, RefPos(bk, r.sent), RefBuckets(bk, r.sent, r.label), o.sent, o.label, 1,
             EmptyDict, [m |-> Zeros(NumBuckets(bk)), raised |-> FALSE])

RECURSIVE SumSeq(_, _)
SumSeq(v, i) == IF i > Len(v) THEN 0 ELSE v[i] + SumSeq(v, i + 1)

\* An example score.  With eps the 1e-10 of lines 141-145, the score is
\* (num / scale) / (den + eps), or sqrt(num / scale) / (den + eps) when root.
Score(num, scale, den, root) == [num |-> num, scale |-> scale, den |-> den, root |-> root]

\* line 141: the standard deviation over the outputs of matches / (ref + eps)
\* in a bucket, which is sqrt(variance of the matches) / (ref + eps)
ScoreMixed(ms, r) ==
  LET n == Len(ms)
      sq == [o \in DOMAIN ms |-> ms[o] * ms[o]]
  IN Score(n * SumSeq(sq, 1) - SumSeq(ms, 1) * SumSeq(ms, 1), n * n, r, TRUE)

\* line 143
ScoreGood(ms, r) == Score(SumSeq(ms, 1), 1, r * Len(ms), FALSE)

\* line 145
ScoreBad(ms, r) == Score(r * Len(ms) - SumSeq(ms, 1), 1, r * Len(ms), FALSE)

\* lines 141-145: example_scores[rsi], by dimension and bucket
ExampleScores(ref_tot, out_mat) ==
  [fi \in 1..3 |->
     [b \in DOMAIN ref_tot |->
        LET ms == [o \in DOMAIN out_mat |-> out_mat[o][b]]
        IN CASE fi = 1 -> ScoreMixed(ms, ref_tot[b])
             [] fi = 2 -> ScoreGood(ms, ref_tot[b])
             [] fi = 3 -> ScoreBad(ms, ref_tot[b])]]

\* x < y for two scores of one dimension of one call (same scale, same
\* root).  The difference of the cross products is c0 + c1*eps (+ c2*eps^2)
\* with integer c0, c1, c2 far below 1/eps, so its sign is the sign of the
\* first of c0, c1, c2 that is not zero.
ScoreLess(x, y) ==
  IF x.root
  THEN LET c0 == x.num * y.den * y.den - y.num * x.den * x.den
           c1 == 2 * (x.num * y.den - y.num * x.den)
           c2 == x.num - y.num
       IN c0 < 0 \/ (c0 = 0 /\ c1 < 0) \/ (c0 = 0 /\ c1 = 0 /\ c2 < 0)
  ELSE LET c0 == x.num * y.den - y.num * x.den
           c1 == x.num - y.num
       IN c0 < 0 \/ (c0 = 0 /\ c1 < 0)

\* line 169, and the slip of listing a zero score too
NonNegative(score) == score.num >= 0

Positive(score) == score.num > 0

\* line 165: the orders argsort may give the sentences for one dimension and
\* bucket: any order of non-increasing score (positions are 1-based here)
ArgSorts(scores) ==
  {p \in [DOMAIN scores -> DOMAIN scores] :
     /\ \A i, j \in DOMAIN scores : i # j => p[i] # p[j]
     /\ \A i \in DOMAIN scores :
          i + 1 \in DOMAIN scores => ~ScoreLess(scores[p[i]], scores[p[i + 1]])}

\* lines 168-170: the sentence indices (0-based) appended for one dimension
\* and bucket, from position i of topn on
RECURSIVE Listed(_, _, _, _)
Listed(topn, scores, n, i) ==
  IF i > n \/ i > Len(topn) THEN <<>>
  ELSE (IF Positive(scores[topn[i]]) THEN <<topn[i] - 1>> ELSE <<>>)
         \o Listed(topn, scores, n, i + 1)

ExBucketers ==
  {FreqWordBucketer((WA :> 1) @@ (WB :> 2), <<1, 2>>, FALSE),
   LabelWordBucketer(<<LX>>)}

ExTokens(labelled) ==
  IF labelled THEN {<<WA, LX>>, <<WA, LY>>} ELSE {<<WA, None_>>, <<WB, None_>>}

ExLens == 0..1

ExSentences(labelled) ==
  {Sentence(labelled, t) : t \in UNION {[1..n -> ExTokens(labelled)] : n \in ExLens}}

ExNumOuts == 1..2

ExNumExamples == 1..2

InitExamples ==
  /\ e_pc = "new"
  /\ e_bucketer = NoBucketer
  /\ e_labelled = FALSE
  /\ e_num_outs = 1
  /\ num_examples = 1
  /\ e_ref_totals = <<>>
  /\ e_out_matches = <<>>
  /\ example_scores = <<>>
  /\ e_cell = 0
  /\ fexamples = <<>>

ExamplesConstruct ==
  /\ e_pc = "new"
  /\ e_bucketer' \in ExBucketers
  /\ e_pc' = "ready"
  /\ UNCHANGED <<e_labelled, e_num_outs, num_examples, e_ref_totals, e_out_matches,
                 example_scores, e_cell, fexamples>>
  /\ UNCHANGED othersExamples

\* lines 103-116: the call, with num_outs outputs and num_examples
ExamplesCall ==
  /\ e_pc = "ready"
  /\ e_num_outs' \in ExNumOuts
  /\ num_examples' \in ExNumExamples
  /\ e_labelled' \in StatLabelled(e_bucketer)
  /\ e_pc' = "loop"
  /\ UNCHANGED <<e_bucketer, e_ref_totals, e_out_matches, example_scores, e_cell, fexamples>>
  /\ UNCHANGED othersExamples

\* lines 119-145: the next reference sentence with its output sentences
ExamplesSentence ==
  /\ e_pc = "loop"
  /\ Len(example_scores) < MaxExSents
  /\ \E r \in ExSentences(e_labelled), os \in [1..e_num_outs -> ExSentences(e_labelled)] :
       LET res == [o \in 1..e_num_outs |-> MyOutMatches(e_bucketer, r, os[o])]
           my_ref == CountBuckets(RefBuckets(e_bucketer, r.sent, r.label), 1,
                                  Zeros(NumBuckets(e_bucketer)))
           my_mat == [o \in 1..e_num_outs |-> res[o].m]
       IN IF RefRaises(e_bucketer, r.sent, r.label) \/ \E o \in 1..e_num_outs : res[o].raised
          THEN /\ e_pc' = "ValueError"
               /\ UNCHANGED <<e_ref_totals, e_out_matches, example_scores>>
          ELSE /\ e_pc' = "loop"
               /\ e_ref_totals' = Append(e_ref_totals, my_ref)
               /\ e_out_matches' = Append(e_out_matches, my_mat)
               /\ example_scores' = Append(example_scores, ExampleScores(my_ref, my_mat))
  /\ UNCHANGED <<e_bucketer, e_labelled, e_num_outs, num_examples, e_cell, fexamples>>
  /\ UNCHANGED othersExamples

\* lines 147-165: the corpus is exhausted
ExamplesLoopDone ==
  /\ e_pc = "loop"
  /\ e_pc' = "rank"
  /\ UNCHANGED <<e_bucketer, e_labelled, e_num_outs, num_examples, e_ref_totals,
                 e_out_matches, example_scores, e_cell, fexamples>>
  /\ UNCHANGED othersExamples

\* lines 166-170 for the next bucket bi and dimension fi (cell 3 * bi + fi):
\* fexamples is the list of examples[bi][fi], which no later cell touches
ExamplesCell ==
  /\ e_pc = "rank"
  /\ e_cell < 3 * NumBuckets(e_bucketer)
  /\ LET bi == e_cell \div 3
         fi == e_cell % 3
         scores == [si \in DOMAIN example_scores |-> example_scores[si][fi + 1][bi + 1]]
     IN \E topn \in ArgSorts(scores) :
          fexamples' = Listed(topn, scores, num_examples, 1)
  /\ e_cell' = e_cell + 1
  /\ UNCHANGED <<e_pc, e_bucketer, e_labelled, e_num_outs, num_examples, e_ref_totals,
                 e_out_matches, example_scores>>
  /\ UNCHANGED othersExamples

\* line 172
ExamplesReturn ==
  /\ e_pc = "rank"
  /\ e_cell = 3 * NumBuckets(e_bucketer)
  /\ e_pc' = "done"
  /\ UNCHANGED <<e_bucketer, e_labelled, e_num_outs, num_examples, e_ref_totals,
                 e_out_matches, example_scores, e_cell, fexamples>>
  /\ UNCHANGED othersExamples

NextExamples ==
  \/ ExamplesConstruct \/ ExamplesCall \/ ExamplesSentence \/ ExamplesLoopDone
  \/ ExamplesCell \/ ExamplesReturn

Init ==
  /\ InitCutoff /\ InitMatch /\ InitStats /\ InitSrc /\ InitSent /\ InitLik
  /\ InitLabel /\ InitFreq /\ InitExamples

SpecCutoff == Init /\ [][NextCutoff]_vars

SpecMatch == Init /\ [][NextMatch]_vars

SpecStats == Init /\ [][NextStats]_vars

SpecSrc == Init /\ [][NextSrc]_vars

SpecSent == Init /\ [][NextSent]_vars

SpecLik == Init /\ [][NextLik]_vars

SpecLabel == Init /\ [][NextLabel]_vars

SpecFreq == Init /\ [][NextFreq]_vars

SpecExamples == Init /\ [][NextExamples]_vars

\* ------------------------------------------------------------------------
\* C1
\* ------------------------------------------------------------------------
\* the number of the first i tokens of sent that are the word w
Occurrences(bk, sent, w, i) ==
  Cardinality({j \in 1..i : j \in DOMAIN sent /\ NormWord(bk, sent[j]) = w})

\* C1: in the matching of one sentence, for every output and every
\* case-normalized word w, min(count of w in the reference, count of w in the
\* output) output positions of w are matched; the k-th occurrence of w in the
\* output is matched to the k-th occurrence of w in the reference, no
\* reference position is matched twice within one output, and every output
\* starts from a fresh consumption state.
C1_Matching ==
  (m_pc = "out") =>
    LET bk == bucketer
        nref(w) == Occurrences(bk, ref_sent, w, Len(ref_sent))
        nout(w) == Occurrences(bk, out_sent, w, Len(out_sent))
    IN /\ Len(matches) = Len(out_sent)
       /\ \A i \in DOMAIN out_sent :
            LET w == NormWord(bk, out_sent[i])
                k == Occurrences(bk, out_sent, w, i)
            IN /\ Cardinality({j \in DOMAIN out_sent :
                                 NormWord(bk, out_sent[j]) = w /\ matches[j] >= 0})
                    = (IF nref(w) < nout(w) THEN nref(w) ELSE nout(w))
               /\ IF k <= nref(w)
                  THEN /\ matches[i] + 1 \in DOMAIN ref_sent
                       /\ NormWord(bk, ref_sent[matches[i] + 1]) = w
                       /\ Occurrences(bk, ref_sent, w, matches[i] + 1) = k
                  ELSE matches[i] = 0 - 1
       /\ \A i, j \in DOMAIN out_sent :
            (i # j /\ matches[i] >= 0) => matches[i] # matches[j]

\* reference [a, a, b] and a second output [a, b, b]: two matches
C1_Witness ==
  /\ m_pc = "out"
  /\ oai = 2
  /\ ref_sent = <<WA, WA, WB>>
  /\ out_sent = <<WA, WB, WB>>
  /\ matches = <<0, 2, 0 - 1>>

\* ------------------------------------------------------------------------
\* C2
\* ------------------------------------------------------------------------
\* C2: with a single output corpus identical to the reference corpus (labels
\* included), in every bucket the match count is the reference count and the
\* output count, and recall = precision = f1 = 1.0 wherever the reference
\* count is not zero.
C2_IdenticalOutput ==
  (s_pc = "done" /\ same) =>
    /\ num_outs = 1
    /\ \A b \in DOMAIN statistics[1] :
         LET t == statistics[1][b]
         IN /\ t[1] = t[2]
            /\ t[1] = t[3]
            /\ t[2] # 0 => (t[4] = One /\ t[5] = One /\ t[6] = One)

C2_Witness ==
  /\ s_pc = "done"
  /\ same
  /\ rsi = 2
  /\ s_labelled
  /\ statistics[1][1] = <<2, 2, 2, One, One, One>>
  /\ statistics[1][2] = <<1, 1, 1, One, One, One>>

\* ------------------------------------------------------------------------
\* C3
\* ------------------------------------------------------------------------
\* C3: for every output and bucket the tuple is (match, ref, out, recall,
\* precision, f1) with recall = match/ref, precision = match/out and
\* f1 = 2*precision*recall/(precision+recall) when match > 0 and all three
\* 0.0 when match = 0; no infinity or NaN occurs: match > 0 in a bucket
\* implies ref > 0 and out > 0 there, with match <= ref and match <= out.
C3_StatisticsFinite ==
  (s_pc = "done") =>
    \A o \in DOMAIN statistics : \A b \in DOMAIN statistics[o] :
      LET t == statistics[o][b]
      IN /\ t[1] = out_matches[o][b] /\ t[2] = ref_total[b] /\ t[3] = out_totals[o][b]
         /\ t[1] = 0 => (t[4] = Zero /\ t[5] = Zero /\ t[6] = Zero)
         /\ t[1] > 0 =>
              /\ t[2] > 0 /\ t[3] > 0 /\ t[1] <= t[2] /\ t[1] <= t[3]
              /\ t[4] = Frac(t[1], t[2])
              /\ t[5] = Frac(t[1], t[3])
              /\ t[6] = Frac(2 * t[1], t[2] + t[3])
         /\ \A k \in 4..6 : ~IsInf(t[k]) /\ ~IsNaN(t[k])

\* ------------------------------------------------------------------------
\* C4
\* ------------------------------------------------------------------------
\* C4: calc_source_bucketed_matches runs to completion on every input whose
\* alignment indices are in range, without a division by zero, and yields one
\* tuple (match, ref_total, out_total, recall, precision, f1) per bucket, in
\* bucket order, with recall = precision = f1 = 0.0 when match is 0.
C4_SourceBucketedMatches ==
  /\ x_pc # "ZeroDivisionError"
  /\ x_pc = "done" =>
       /\ Len(x_yielded) = NumBuckets(x_bucketer)
       /\ \A b \in DOMAIN x_yielded :
            /\ <<x_yielded[b][1], x_yielded[b][2], x_yielded[b][3]>> = x_matches[b]
            /\ x_yielded[b][1] = 0 =>
                 <<x_yielded[b][4], x_yielded[b][5], x_yielded[b][6]>> = <<Zero, Zero, Zero>>

\* ------------------------------------------------------------------------
\* C5
\* ------------------------------------------------------------------------
FirstExceeding(cutoffs, value) ==
  Min({i - 1 : i \in {j \in 1..Len(cutoffs) : value < cutoffs[j]}} \cup {Len(cutoffs)})

\* C5: for a strictly increasing cutoff list C and a value v, cutoff_into_bucket
\* returns an index in 0..len(C) that is the first index whose cutoff exceeds v
\* (len(C) if none does); it is 0 iff v < C[0], len(C) iff v >= C[-1], and a
\* larger value never gets a smaller bucket.
C5_CutoffIntoBucket ==
  (c_pc = "bucketed" /\ StrictlyIncreasing(bucket_cutoffs)) =>
    LET C == bucket_cutoffs
        n == Len(C)
    IN /\ c_bucket \in 0..n
       /\ c_bucket = FirstExceeding(C, c_value)
       /\ (c_bucket = 0) <=> (c_value < C[1])
       /\ (c_bucket = n) <=> (c_value >= C[n])
       /\ \A v \in Values :
            /\ (c_value <= v) => (c_bucket <= cutoff_into_bucket(C, v))
            /\ (v <= c_value) => (cutoff_into_bucket(C, v) <= c_bucket)

C5_Witness ==
  /\ c_pc = "bucketed"
  /\ bucket_cutoffs = FreqDefaultCutoffs
  /\ c_value = 100
  /\ c_bucket = 7

\* ------------------------------------------------------------------------
\* C6
\* ------------------------------------------------------------------------
\* C6: set_bucket_cutoffs on a strictly increasing list C gives len(C)+1
\* display strings: '<C[0]' first, '>=C[-1]' last, and for bucket i in
\* 1..len(C)-1 the range '[C[i-1],C[i])', or the single value C[i]-1 when
\* num_type is 'int' and the range has width one; the default frequency
\* cutoffs give <1, 1, 2, 3, 4, [5,10), [10,100), [100,1000), >=1000.
C6_BucketStrs ==
  (c_pc \in {"set", "bucketed"} /\ StrictlyIncreasing(bucket_cutoffs)) =>
    LET C == bucket_cutoffs
        n == Len(C)
    IN /\ Len(bucket_strs) = n + 1
       /\ \A v \in Values : cutoff_into_bucket(C, v) + 1 \in DOMAIN bucket_strs
       /\ bucket_strs[1] = <<"<">> \o IntStr(C[1])
       /\ bucket_strs[n + 1] = <<">", "=">> \o IntStr(C[n])
       /\ \A i \in 2..n :
            bucket_strs[i] =
              IF c_num_type = "int" /\ C[i] - 1 = C[i-1]
              THEN IntStr(C[i] - 1)
              ELSE <<"[">> \o IntStr(C[i-1]) \o <<",">> \o IntStr(C[i]) \o <<")">>
       /\ (C = FreqDefaultCutoffs /\ c_num_type = "int") =>
            bucket_strs = << <<"<", "1">>, <<"1">>, <<"2">>, <<"3">>, <<"4">>,
                             <<"[", "5", ",", "1", "0", ")">>,
                             <<"[", "1", "0", ",", "1", "0", "0", ")">>,
                             <<"[", "1", "0", "0", ",", "1", "0", "0", "0", ")">>,
                             <<">", "=", "1", "0", "0", "0">> >>

C6_Witness ==
  /\ c_pc = "set"
  /\ bucket_cutoffs = FreqDefaultCutoffs
  /\ c_num_type = "int"
  /\ bucket_strs[6] = <<"[", "5", ",", "1", "0", ")">>

\* ------------------------------------------------------------------------
\* create_bucketed_corpus
\* ------------------------------------------------------------------------
\* the bucket of the i-th pair of the call
SentBucketOf(i) == SentCalcBucket(b_bucketer, b_out[i], b_ref[i], b_labels[i])

\* the sentences of corpus, from position i on, whose pair falls in bucket
RECURSIVE InBucket(_, _, _)
InBucket(corpus, bucket, i) ==
  IF i > Len(corpus) THEN <<>>
  ELSE IF SentBucketOf(i) = bucket
       THEN <<corpus[i]>> \o InBucket(corpus, bucket, i + 1)
       ELSE InBucket(corpus, bucket, i + 1)

\* how often sent is in corpus
TimesIn(corpus, sent) == Cardinality({i \in 1..Len(corpus) : corpus[i] = sent})

\* the sub-corpora of the buckets from b on, one after another
RECURSIVE ConcatOut(_)
ConcatOut(b) ==
  IF b > Len(bucketed_corpus) THEN <<>> ELSE bucketed_corpus[b].out \o ConcatOut(b + 1)

RECURSIVE ConcatRef(_)
ConcatRef(b) ==
  IF b > Len(bucketed_corpus) THEN <<>> ELSE bucketed_corpus[b].ref \o ConcatRef(b + 1)

\* The partition of a finished call: every bucket has a reference sub-corpus,
\* the out and ref sub-corpora are the sentences of the bucket in corpus
\* order (so position j of one pairs with position j of the other), and the
\* concatenations have every sentence as often as the corpora.
Partitioned ==
  /\ \A b \in 1..Len(bucketed_corpus) :
       /\ bucketed_corpus[b].has_ref
       /\ bucketed_corpus[b].out = InBucket(b_out, b - 1, 1)
       /\ bucketed_corpus[b].ref = InBucket(b_ref, b - 1, 1)
  /\ Len(ConcatOut(1)) = Len(b_out)
  /\ Len(ConcatRef(1)) = Len(b_ref)
  /\ \A sent \in CorpusSentences :
       /\ TimesIn(ConcatOut(1), sent) = TimesIn(b_out, sent)
       /\ TimesIn(ConcatRef(1), sent) = TimesIn(b_ref, sent)

\* C7: called with an output and a reference corpus of the same length,
\* create_bucketed_corpus returns per-bucket output sub-corpora whose
\* concatenation is a permutation of the output corpus, and likewise
\* reference sub-corpora, each in corpus order, the j-th output sentence of
\* a bucket paired with its reference at position j.
C7_BucketedCorpus == (b_pc = "done" /\ b_ref_given) => Partitioned

\* The same for corpora of at least one sentence, where it holds.
NonEmptyBucketedCorpus == (b_pc = "done" /\ b_ref_given /\ b_n >= 1) => Partitioned

\* C8: called with a non-empty output corpus and no reference, the call
\* completes without error and puts every output sentence in the bucket
\* computed for it with itself as reference.
C8_RefDefaultsToOut ==
  (~b_ref_given /\ b_n >= 1) =>
     /\ b_pc # "AttributeError"
     /\ b_pc = "done" =>
          \A b \in 1..Len(bucketed_corpus) :
            bucketed_corpus[b].out = InBucket(b_out, b - 1, 1)

\* ------------------------------------------------------------------------
\* calc_bucketed_likelihoods
\* ------------------------------------------------------------------------
\* the token positions <<sentence, token>> of the corpus that fall in bucket
LikPositions(bucket) ==
  {p \in (1..Len(l_corpus)) \X (1..MaxLikLen) :
     /\ p[2] <= Len(l_corpus[p[1]])
     /\ LET word == NormWord(l_bucketer, l_corpus[p[1]][p[2]])
        IN calc_bucket(l_bucketer, word, word) = bucket}

RECURSIVE SumOver(_)
SumOver(ps) ==
  IF ps = {} THEN 0
  ELSE LET p == CHOOSE q \in ps : TRUE
       IN l_likelihoods[p[1]][p[2]] + SumOver(ps \ {p})

LikMismatch ==
  \/ l_ncorpus # l_nlik
  \/ \E i \in 1..Len(l_corpus) : Len(l_corpus[i]) # Len(l_likelihoods[i])

\* C9: calc_bucketed_likelihoods yields one result per bucket in bucket
\* order, the mean of the likelihoods of the bucket's tokens or NA when the
\* bucket has no token; a corpus and likelihoods of different numbers of
\* sentences, or a sentence and a list of different lengths, fail with an
\* error and nothing is yielded.
C9_BucketedLikelihoods ==
  /\ LikMismatch => (l_pc = "ValueError" /\ l_yielded = <<>>)
  /\ l_pc = "ValueError" => l_yielded = <<>>
  /\ l_pc \in {"yield", "done"} =>
       /\ Len(l_yielded) = l_bi
       /\ \A b \in 1..Len(l_yielded) :
            LET ps == LikPositions(b - 1)
            IN IF ps = {} THEN l_yielded[b] = NA
               ELSE l_yielded[b] = Number(Frac(SumOver(ps), Cardinality(ps)))
  /\ l_pc = "done" => Len(l_yielded) = NumBuckets(l_bucketer)

C9_Witness ==
  /\ l_pc = "done"
  /\ l_bucketer.case_insensitive
  /\ l_ncorpus = 2
  /\ l_corpus = << <<WA, WB>>, <<WUpperA>> >>
  /\ l_likelihoods = << <<0 - 1, 0 - 3>>, <<0 - 3>> >>
  /\ l_yielded = <<NA, Number(<<0 - 2, 1>>), Number(<<0 - 3, 1>>)>>

\* ------------------------------------------------------------------------
\* the categorical label bucketers
\* ------------------------------------------------------------------------
\* C10: for LabelWordBucketer and LabelSentenceBucketer alike, a label of
\* the label list maps to its position in the list, any other non-empty
\* label to the trailing bucket len(label_set), and a None or empty label
\* makes calc_bucket fail with an error.
C10_LabelBuckets ==
  lb_pc \in {"returned", "ValueError"} =>
    IF Falsy(lb_label)
    THEN lb_pc = "ValueError"
    ELSE /\ lb_pc = "returned"
         /\ IF lb_label \in Range(lb_bucketer.label_set)
            THEN /\ lb_bucket < Len(lb_bucketer.label_set)
                 /\ lb_bucketer.label_set[lb_bucket + 1] = lb_label
            ELSE lb_bucket = Len(lb_bucketer.label_set)


\* ------------------------------------------------------------------------
\* FreqWordBucketer.__init__
\* ------------------------------------------------------------------------
\* how many of the four sources the call supplied
SourcesSupplied ==
  Cardinality({k \in {"freq_counts", "freq_count_file", "freq_corpus_file", "freq_data"} :
                 f_args[k].given})

\* C11: constructing a FreqWordBucketer succeeds only when exactly one of
\* freq_counts, freq_count_file, freq_corpus_file and freq_data is supplied;
\* with no source or with more than one it fails with an error.
C11_ExactlyOneSource ==
  f_pc # "new" => (f_pc # "ValueError" <=> SourcesSupplied = 1)

\* C11 as the constructor has it: construction fails exactly when no source
\* is supplied with a value (a freq_counts, freq_corpus_file or freq_data
\* that is empty counts as not supplied); with one source or more it
\* succeeds and takes its counts from the first supplied of freq_counts,
\* freq_count_file, freq_corpus_file, freq_data, ignoring the others.
C11_FirstSourceWins ==
  f_pc # "new" =>
    LET a == f_args
        ci == a.case_insensitive
    IN /\ f_pc = "ValueError" <=>
            /\ ~a.freq_counts.truthy
            /\ ~a.freq_count_file.given
            /\ ~a.freq_corpus_file.truthy
            /\ ~a.freq_data.truthy
       /\ f_pc # "ValueError" =>
            LET fc == f_bucketer.freq_counts
            IN IF a.freq_counts.truthy THEN fc = a.freq_counts.val
               ELSE IF a.freq_count_file.given
                    THEN fc = ReadCounts(EmptyDict, a.freq_count_file.val, 1, ci)
               ELSE IF a.freq_corpus_file.truthy
                    THEN fc = CountCorpus(EmptyDict, a.freq_corpus_file.val, 1, ci)
               ELSE fc = CountCorpus(EmptyDict, a.freq_data.val, 1, ci)

C11_Witness ==
  /\ f_pc = "constructed"
  /\ SourcesSupplied = 4
  /\ ~f_args.freq_counts.truthy
  /\ f_args.freq_count_file.val = << <<WUpperA, <<"1", "0">>>>, <<WA>> >>
  /\ f_args.freq_data.truthy
  /\ f_args.case_insensitive
  /\ f_bucketer.freq_counts = (WA :> 10)


\* ------------------------------------------------------------------------
\* the bucket of a matched output token
\* ------------------------------------------------------------------------
\* C12: in _calc_sent_buckets_and_matches an output token matched to
\* reference position r gets exactly the bucket of reference token r, bucket
\* 0 included and whatever its own label would give, without an error; only
\* an unmatched output token gets the bucket computed from the token and its
\* own label.
C12_MatchedBucket ==
  /\ m_pc = "out" =>
       \A i \in DOMAIN out_sent :
         IF matches[i] >= 0
         THEN out_buckets[i] = ref_buckets[matches[i] + 1]
         ELSE out_buckets[i] =
                calc_bucket(bucketer, NormWord(bucketer, out_sent[i]), LabelAt(out_label, i))
  /\ (m_pc = "error" /\ oai > 0) => matches[Len(matches)] < 0


\* ------------------------------------------------------------------------
\* the examples of calc_statistics_and_examples
\* ------------------------------------------------------------------------
\* the bucket and the dimension of the list in fexamples
LastBucket == (e_cell - 1) \div 3

LastDimension == (e_cell - 1) % 3

\* the score of sentence si (0-based) for that dimension and bucket
LastScore(si) == example_scores[si + 1][LastDimension + 1][LastBucket + 1]

\* C13: for every bucket and each of the three example categories the list
\* returned has at most num_examples distinct sentence indices, every listed
\* sentence has a strictly positive score for the (dimension, bucket), the
\* list is in non-increasing score order, no unlisted sentence has a
\* strictly greater score than a listed one, and a sentence with no
\* reference token and no match in the bucket is never listed.
C13_Examples ==
  (e_pc \in {"rank", "done"} /\ e_cell >= 1) =>
    LET sents == 0..(Len(example_scores) - 1)
        listed == {fexamples[j] : j \in DOMAIN fexamples}
    IN /\ Len(fexamples) <= num_examples
       /\ listed \subseteq sents
       /\ Cardinality(listed) = Len(fexamples)
       /\ \A si \in listed : LastScore(si).num > 0
       /\ \A j, k \in DOMAIN fexamples :
            j < k => ~ScoreLess(LastScore(fexamples[j]), LastScore(fexamples[k]))
       /\ \A si \in listed, ui \in sents \ listed : ~ScoreLess(LastScore(si), LastScore(ui))
       /\ \A si \in sents :
            (/\ e_ref_totals[si + 1][LastBucket + 1] = 0
             /\ \A o \in 1..e_num_outs : e_out_matches[si + 1][o][LastBucket + 1] = 0)
            => si \notin listed

\* two sentences with reference [a] labelled X and two outputs, one output
\* matching in the first sentence and both in the second; with num_examples
\* = 1 the "all systems good" list of bucket 0 is the second sentence alone
C13_Witness ==
  /\ e_pc = "rank"
  /\ e_cell = 2
  /\ e_num_outs = 2
  /\ num_examples = 1
  /\ e_ref_totals = << <<1, 0>>, <<1, 0>> >>
  /\ e_out_matches = << << <<1, 0>>, <<0, 0>> >>, << <<1, 0>>, <<1, 0>> >> >>
  /\ fexamples = <<1>>

============================================================================
